---------------------------- MODULE Spec2Model ----------------------------
(***************************************************************************)
(* The CCP (route control / route update) codec of ilp-protocol-ccp,       *)
(* src/src/index.ts.                                                       *)
(*                                                                         *)
(* Representation.  A Buffer is a sequence of bytes (0..255).  A JavaScript*)
(* string is a sequence of UTF-16 code units (0..65535).  An ILP packet is *)
(* the record ilp-packet hands to / receives from this module (the packet  *)
(* codec itself is an external library); a Date is its millisecond value.  *)
(***************************************************************************)
EXTENDS Integers, Sequences, FiniteSets, TLC

(***************************************************************************)
(* Bit arithmetic on non-negative integers (JavaScript's & and |).         *)
(***************************************************************************)
RECURSIVE BitAnd(_, _)
BitAnd(a, b) ==
  IF a = 0 \/ b = 0 THEN 0
  ELSE (a % 2) * (b % 2) + 2 * BitAnd(a \div 2, b \div 2)

RECURSIVE BitOr(_, _)
BitOr(a, b) ==
  IF a = 0 THEN b
  ELSE IF b = 0 THEN a
  ELSE (IF a % 2 = 1 \/ b % 2 = 1 THEN 1 ELSE 0) + 2 * BitOr(a \div 2, b \div 2)

RECURSIVE Pow256(_)
Pow256(n) == IF n = 0 THEN 1 ELSE 256 * Pow256(n - 1)

(***************************************************************************)
(* Buffer <-> string conversions of Node.js.                               *)
(***************************************************************************)
\* Buffer.from(s, 'ascii'): every code unit is truncated to its low byte.
AsciiEncode(s) == [i \in 1..Len(s) |-> s[i] % 256]

\* buf.toString('ascii'): the high bit of every byte is cleared.
AsciiDecode(b) == [i \in 1..Len(b) |-> b[i] % 128]

IsHighSurrogate(c) == c >= 55296 /\ c <= 56319
IsLowSurrogate(c) == c >= 56320 /\ c <= 57343

\* Buffer.from(s, 'utf8'): a lone surrogate is written as U+FFFD.
RECURSIVE Utf8Encode(_)
Utf8Encode(s) ==
  IF s = <<>> THEN <<>>
  ELSE LET c == Head(s) IN
    IF c < 128 THEN <<c>> \o Utf8Encode(Tail(s))
    ELSE IF c < 2048 THEN
      <<192 + (c \div 64), 128 + (c % 64)>> \o Utf8Encode(Tail(s))
    ELSE IF IsHighSurrogate(c) /\ Len(s) >= 2 /\ IsLowSurrogate(s[2]) THEN
      LET cp == 65536 + (c - 55296) * 1024 + (s[2] - 56320) IN
        <<240 + (cp \div 262144), 128 + ((cp \div 4096) % 64),
          128 + ((cp \div 64) % 64), 128 + (cp % 64)>>
        \o Utf8Encode(Tail(Tail(s)))
    ELSE IF IsHighSurrogate(c) \/ IsLowSurrogate(c) THEN
      <<239, 191, 189>> \o Utf8Encode(Tail(s))
    ELSE
      <<224 + (c \div 4096), 128 + ((c \div 64) % 64), 128 + (c % 64)>>
      \o Utf8Encode(Tail(s))

\* Number of continuation bytes the lead byte x announces (0: x is not a lead).
Utf8Need(x) ==
  IF x >= 194 /\ x <= 223 THEN 1
  ELSE IF x >= 224 /\ x <= 239 THEN 2
  ELSE IF x >= 240 /\ x <= 244 THEN 3
  ELSE 0

\* Range allowed for the first continuation byte after lead byte x.
Utf8Lower(x) == IF x = 224 THEN 160 ELSE IF x = 240 THEN 144 ELSE 128
Utf8Upper(x) == IF x = 237 THEN 159 ELSE IF x = 244 THEN 143 ELSE 191

\* How many of the n continuation bytes announced by b[1] are present and valid.
RECURSIVE Utf8Cont(_, _, _)
Utf8Cont(b, k, n) ==
  IF k >= n \/ Len(b) < k + 2 THEN k
  ELSE LET y == b[k + 2]
           lo == IF k = 0 THEN Utf8Lower(b[1]) ELSE 128
           hi == IF k = 0 THEN Utf8Upper(b[1]) ELSE 191
       IN IF y >= lo /\ y <= hi THEN Utf8Cont(b, k + 1, n) ELSE k

\* The code units of one code point.
CodeUnits(cp) ==
  IF cp < 65536 THEN <<cp>>
  ELSE <<55296 + ((cp - 65536) \div 1024), 56320 + ((cp - 65536) % 1024)>>

\* buf.toString('utf8'): every maximal ill-formed subsequence becomes U+FFFD.
RECURSIVE Utf8Decode(_)
Utf8Decode(b) ==
  IF b = <<>> THEN <<>>
  ELSE LET x == b[1]
           n == Utf8Need(x)
           k == Utf8Cont(b, 0, n)
           rest(m) == SubSeq(b, m + 1, Len(b))
       IN
    IF x < 128 THEN <<x>> \o Utf8Decode(rest(1))
    ELSE IF n = 0 \/ k < n THEN <<65533>> \o Utf8Decode(rest(1 + k))
    ELSE IF n = 1 THEN
      <<(x - 192) * 64 + (b[2] - 128)>> \o Utf8Decode(rest(2))
    ELSE IF n = 2 THEN
      <<(x - 224) * 4096 + (b[2] - 128) * 64 + (b[3] - 128)>> \o Utf8Decode(rest(3))
    ELSE
      CodeUnits((x - 240) * 262144 + (b[2] - 128) * 4096
                + (b[3] - 128) * 64 + (b[4] - 128))
      \o Utf8Decode(rest(4))

(***************************************************************************)
(* oer-utils Writer.                                                       *)
(***************************************************************************)
\* n-byte big-endian unsigned integer.
WriteUInt(v, n) == [i \in 1..n |-> (v \div Pow256(n - i)) % 256]

RECURSIVE UIntSize(_)
UIntSize(v) == IF v < 256 THEN 1 ELSE 1 + UIntSize(v \div 256)

\* writer.writeUInt8 / writeUInt16 / writeUInt32
WriteUInt8(v) == WriteUInt(v, 1)
WriteUInt16(v) == WriteUInt(v, 2)
WriteUInt32(v) == WriteUInt(v, 4)

\* The OER length determinant: short form below 128, long form otherwise.
LengthPrefix(len) ==
  IF len < 128 THEN <<len>>
  ELSE <<128 + UIntSize(len)>> \o WriteUInt(len, UIntSize(len))

\* writer.writeVarOctetString(buffer)
WriteVarOctetString(b) == LengthPrefix(Len(b)) \o b

\* writer.writeVarUInt(value): the shortest big-endian form, length-prefixed.
WriteVarUInt(v) == WriteVarOctetString(WriteUInt(v, UIntSize(v)))

(***************************************************************************)
(* oer-utils Reader.  A reader is [buf, pos, ok, val]: the buffer, the     *)
(* cursor, whether every read so far succeeded (ok = FALSE stands for the  *)
(* ParseError / RangeError the failing read throws, which ends the parse), *)
(* and the value of the last read.  Every read takes the reader as the     *)
(* previous read left it.                                                  *)
(***************************************************************************)
\* new Reader(buffer)
NewReader(buf) == [buf |-> buf, pos |-> 0, ok |-> TRUE, val |-> <<>>]

ReadFail(rd) == [rd EXCEPT !.ok = FALSE, !.val = <<>>]

\* reader.read(n)
Read(rd, n) ==
  IF ~rd.ok \/ rd.pos + n > Len(rd.buf) THEN ReadFail(rd)
  ELSE [rd EXCEPT !.pos = rd.pos + n, !.val = SubSeq(rd.buf, rd.pos + 1, rd.pos + n)]

RECURSIVE BytesToUInt(_)
BytesToUInt(b) ==
  IF b = <<>> THEN 0 ELSE 256 * BytesToUInt(SubSeq(b, 1, Len(b) - 1)) + b[Len(b)]

\* The bytes just read, as a big-endian unsigned integer.
AsUInt(rd) == IF rd.ok THEN [rd EXCEPT !.val = BytesToUInt(rd.val)] ELSE rd

\* reader.readUInt8 / readUInt16 / readUInt32
ReadUInt(rd, n) == AsUInt(Read(rd, n))
ReadUInt8(rd) == ReadUInt(rd, 1)
ReadUInt16(rd) == ReadUInt(rd, 2)
ReadUInt32(rd) == ReadUInt(rd, 4)

\* The long form of a length: n bytes of length.  One that a shorter form
\* could have encoded is refused.
LongLength(rd, n, len) ==
  IF n = 0 \/ ~len.ok \/ len.val < (IF n = 1 THEN 128 ELSE Pow256(n - 1))
  THEN ReadFail(rd)
  ELSE len

\* The length determinant, after its first byte has been read.
LengthFrom(first) ==
  IF ~first.ok \/ first.val < 128 THEN first
  ELSE LongLength(first, first.val - 128, ReadUInt(first, first.val - 128))

ReadLengthPrefix(rd) == LengthFrom(ReadUInt8(rd))

OctetsOfLength(len) == IF len.ok THEN Read(len, len.val) ELSE len

\* reader.readVarOctetString()
ReadVarOctetString(rd) == OctetsOfLength(ReadLengthPrefix(rd))

VarUIntOf(rd) ==
  IF ~rd.ok THEN rd
  ELSE IF Len(rd.val) = 0 \/ Len(rd.val) > 6 THEN ReadFail(rd)
  ELSE AsUInt(rd)

\* reader.readVarUInt(): at least one byte, at most MAX_SAFE_BYTES of them.
ReadVarUInt(rd) == VarUIntOf(ReadVarOctetString(rd))

(***************************************************************************)
(* ./uuid (readUuid, writeUuid): the identifier codec.  Its file is not    *)
(* among the sources; it is modelled from section 4.1 of the specification:*)
(* 16 raw bytes <-> the lowercase hyphenated 36-character form.            *)
(***************************************************************************)
HexDigit(n) == IF n < 10 THEN 48 + n ELSE 87 + n

HexVal(c) ==
  IF c >= 48 /\ c <= 57 THEN c - 48
  ELSE IF c >= 97 /\ c <= 102 THEN c - 87
  ELSE IF c >= 65 /\ c <= 70 THEN c - 55
  ELSE -1

RECURSIVE BytesToHex(_)
BytesToHex(b) ==
  IF b = <<>> THEN <<>>
  ELSE <<HexDigit(b[1] \div 16), HexDigit(b[1] % 16)>> \o BytesToHex(Tail(b))

RECURSIVE HexToBytes(_)
HexToBytes(s) ==
  IF Len(s) < 2 \/ HexVal(s[1]) < 0 \/ HexVal(s[2]) < 0 THEN <<>>
  ELSE <<16 * HexVal(s[1]) + HexVal(s[2])>> \o HexToBytes(Tail(Tail(s)))

IsNotHyphen(c) == c # 45

\* writeUuid(writer, uuid): the 16 bytes written, or the error thrown.
writeUuid(uuid) ==
  LET b == HexToBytes(SelectSeq(uuid, IsNotHyphen)) IN
    [ok |-> Len(b) = 16, val |-> b]

UuidText(h) ==
  SubSeq(h, 1, 8) \o <<45>> \o SubSeq(h, 9, 12) \o <<45>> \o SubSeq(h, 13, 16)
  \o <<45>> \o SubSeq(h, 17, 20) \o <<45>> \o SubSeq(h, 21, 32)

UuidOf(rd) == IF rd.ok THEN [rd EXCEPT !.val = UuidText(BytesToHex(rd.val))] ELSE rd

\* readUuid(reader)
readUuid(rd) == UuidOf(Read(rd, 16))

(***************************************************************************)
(* Module constants (index.ts lines 5-9).                                  *)
(***************************************************************************)
CCP_CONTROL_DESTINATION == "peer.route.control"
CCP_UPDATE_DESTINATION == "peer.route.update"

\* Buffer.alloc(32)
PEER_PROTOCOL_FULFILLMENT == [i \in 1..32 |-> 0]

\* Buffer.from('Zmh6rfhivXdsj8GLjp+OIAiXFIVu4jOzkCpZHQ1fKSU=', 'base64')
PEER_PROTOCOL_CONDITION ==
  <<102, 104, 122, 173, 248, 98, 189, 119, 108, 143, 193, 139, 142, 159, 142, 32,
    8, 151, 20, 133, 110, 226, 51, 179, 144, 42, 89, 29, 13, 95, 41, 37>>

PEER_PROTOCOL_EXPIRY_DURATION == 60000

(***************************************************************************)
(* ilp-packet: the packets as this module builds and receives them.        *)
(***************************************************************************)
NoPacket == [type |-> "none"]

\* IlpPacket.serializeIlpPrepare({amount, destination, executionCondition, expiresAt, data})
serializeIlpPrepare(amount, destination, executionCondition, expiresAt, data) ==
  [type |-> "prepare", amount |-> amount, destination |-> destination,
   executionCondition |-> executionCondition, expiresAt |-> expiresAt, data |-> data]

\* IlpPacket.serializeIlpFulfill({fulfillment, data})
serializeIlpFulfill(fulfillment, data) ==
  [type |-> "fulfill", fulfillment |-> fulfillment, data |-> data]

(***************************************************************************)
(* The outcome of a call: the value returned or the error thrown.          *)
(* message is the literal of the throw statement, detail the string the    *)
(* code appends to it.                                                     *)
(***************************************************************************)
NoValue == [none |-> TRUE]
NoResult == [ok |-> FALSE, error |-> "none", message |-> "", detail |-> <<>>,
             value |-> NoValue]
Returned(v) == [ok |-> TRUE, error |-> "", message |-> "", detail |-> <<>>, value |-> v]
Thrown(error, message, detail) ==
  [ok |-> FALSE, error |-> error, message |-> message, detail |-> detail,
   value |-> NoValue]

\* An error raised inside oer-utils, ilp-packet or ./uuid.
LibraryError(what) == Thrown("LibraryError", what, <<>>)

RECURSIVE Flatten(_)
Flatten(ss) == IF ss = <<>> THEN <<>> ELSE Head(ss) \o Flatten(Tail(ss))

\* for (let i = 0; i < count; i++) { acc.push(reader.readVarOctetString()) }
RECURSIVE OctetStringsLoop(_, _, _)
OctetStringsLoop(rd, count, acc) ==
  IF ~rd.ok THEN rd
  ELSE IF count = 0 THEN [rd EXCEPT !.val = acc]
  ELSE LET one == ReadVarOctetString(rd) IN
    IF ~one.ok THEN one ELSE OctetStringsLoop(one, count - 1, Append(acc, one.val))

\* The loop, run by the reader that has just read the count.
ReadVarOctetStrings(counted) ==
  IF ~counted.ok THEN counted ELSE OctetStringsLoop(counted, counted.val, <<>>)

(***************************************************************************)
(* Route control request.                                                  *)
(***************************************************************************)
\* The clock comparison of the expiry check: Date.now() > Number(ilp.expiresAt)
\* A variant that also rejects a packet expiring in the current millisecond.
IsExpired_AtOrAfter(nowMs, expiresAt) == nowMs >= expiresAt

IsExpired(nowMs, expiresAt) == nowMs > expiresAt

\* A variant that reads the features as ASCII text.
ReadControlPayload_AsciiFeatures(data) ==
  LET speaker == ReadVarOctetString(NewReader(data))
      lastKnownRoutingTableId == readUuid(speaker)
      lastKnownEpoch == ReadUInt32(lastKnownRoutingTableId)
      featureCount == ReadVarUInt(lastKnownEpoch)
      features == ReadVarOctetStrings(featureCount)
  IN IF ~features.ok THEN LibraryError("reader")
     ELSE Returned([speaker |-> AsciiDecode(speaker.val),
                    lastKnownRoutingTableId |-> lastKnownRoutingTableId.val,
                    lastKnownEpoch |-> lastKnownEpoch.val,
                    features |-> [i \in 1..Len(features.val) |->
                                    AsciiDecode(features.val[i])]])

\* Lines 84-103: the payload of a control request.
ReadControlPayload(data) ==
  LET speaker == ReadVarOctetString(NewReader(data))
      lastKnownRoutingTableId == readUuid(speaker)
      lastKnownEpoch == ReadUInt32(lastKnownRoutingTableId)
      featureCount == ReadVarUInt(lastKnownEpoch)
      features == ReadVarOctetStrings(featureCount)
  IN IF ~features.ok THEN LibraryError("reader")
     ELSE Returned([speaker |-> AsciiDecode(speaker.val),
                    lastKnownRoutingTableId |-> lastKnownRoutingTableId.val,
                    lastKnownEpoch |-> lastKnownEpoch.val,
                    features |-> [i \in 1..Len(features.val) |->
                                    Utf8Decode(features.val[i])]])

deserializeCcpRouteControlRequest(request, nowMs) ==
  IF request.type # "prepare" THEN LibraryError("ilp-packet")
  ELSE IF request.destination # CCP_CONTROL_DESTINATION THEN
    Thrown("TypeError", "packet is not a CCP route control request.", <<>>)
  ELSE IF request.executionCondition # PEER_PROTOCOL_CONDITION THEN
    Thrown("Error",
           "packet does not contain correct condition for a peer protocol request.", <<>>)
  ELSE IF IsExpired(nowMs, request.expiresAt) THEN
    Thrown("Error", "CCP route control request packet is expired.", <<>>)
  ELSE ReadControlPayload(request.data)

\* Lines 107-119: the payload of a control request.
WriteControlPayload(request) ==
  WriteVarOctetString(AsciiEncode(request.speaker))
  \o writeUuid(request.lastKnownRoutingTableId).val
  \o WriteUInt32(request.lastKnownEpoch)
  \o WriteVarUInt(Len(request.features))
  \o Flatten([i \in 1..Len(request.features) |->
               WriteVarOctetString(Utf8Encode(request.features[i]))])

\* A variant whose packet expires at the time it is built.
serializeCcpRouteControlRequest_NoDuration(request, nowMs) ==
  IF ~writeUuid(request.lastKnownRoutingTableId).ok THEN LibraryError("uuid")
  ELSE Returned(serializeIlpPrepare("0", CCP_CONTROL_DESTINATION,
                                    PEER_PROTOCOL_CONDITION,
                                    nowMs,
                                    WriteControlPayload(request)))

serializeCcpRouteControlRequest(request, nowMs) ==
  IF ~writeUuid(request.lastKnownRoutingTableId).ok THEN LibraryError("uuid")
  ELSE Returned(serializeIlpPrepare("0", CCP_CONTROL_DESTINATION,
                                    PEER_PROTOCOL_CONDITION,
                                    nowMs + PEER_PROTOCOL_EXPIRY_DURATION,
                                    WriteControlPayload(request)))

(***************************************************************************)
(* Route update request.                                                   *)
(***************************************************************************)
\* A variant that drops the dependent flags the dependency rule forbids.
ReadProp_RuleApplied(meta, id, value) ==
  LET isWellKnown == BitAnd(meta, 128) # 0
      isTransitive == ~isWellKnown /\ BitAnd(meta, 64) # 0
      isPartial == isTransitive /\ BitAnd(meta, 32) # 0
      isUtf8 == BitAnd(meta, 16) # 0
  IN [isWellKnown |-> isWellKnown, isTransitive |-> isTransitive,
      isPartial |-> isPartial, id |-> id, isUtf8 |-> isUtf8,
      value |-> IF isUtf8 THEN Utf8Decode(value) ELSE value]

\* Lines 171-199: one property, from its metadata byte, id and raw value.
ReadProp(meta, id, value) ==
  LET isWellKnown == BitAnd(meta, 128) # 0
      isTransitive == BitAnd(meta, 64) # 0
      isPartial == BitAnd(meta, 32) # 0
      isUtf8 == BitAnd(meta, 16) # 0
  IN [isWellKnown |-> isWellKnown, isTransitive |-> isTransitive,
      isPartial |-> isPartial, id |-> id, isUtf8 |-> isUtf8,
      value |-> IF isUtf8 THEN Utf8Decode(value) ELSE value]

\* Lines 170-200: the loop over the properties of a route.
RECURSIVE PropsLoop(_, _, _)
PropsLoop(rd, count, acc) ==
  IF ~rd.ok THEN rd
  ELSE IF count = 0 THEN [rd EXCEPT !.val = acc]
  ELSE LET meta == ReadUInt8(rd)
           id == ReadUInt16(meta)
           value == ReadVarOctetString(id)
       IN IF ~value.ok THEN value
          ELSE PropsLoop(value, count - 1,
                         Append(acc, ReadProp(meta.val, id.val, value.val)))

\* The loop, run by the reader that has just read propCount.
ReadProps(propCount) ==
  IF ~propCount.ok THEN propCount ELSE PropsLoop(propCount, propCount.val, <<>>)

\* Lines 158-207: one route.
ReadRoute(rd) ==
  LET prefix == ReadVarOctetString(rd)
      pathLength == ReadVarUInt(prefix)
      path == ReadVarOctetStrings(pathLength)
      auth == Read(path, 32)
      propCount == ReadVarUInt(auth)
      props == ReadProps(propCount)
  IN IF ~props.ok THEN props
     ELSE [props EXCEPT !.val =
             [prefix |-> AsciiDecode(prefix.val),
              path |-> [i \in 1..Len(path.val) |-> AsciiDecode(path.val[i])],
              auth |-> auth.val,
              props |-> props.val]]

\* Lines 157-208: the loop over the new routes.
RECURSIVE RoutesLoop(_, _, _)
RoutesLoop(rd, count, acc) ==
  IF ~rd.ok THEN rd
  ELSE IF count = 0 THEN [rd EXCEPT !.val = acc]
  ELSE LET route == ReadRoute(rd) IN
    IF ~route.ok THEN route ELSE RoutesLoop(route, count - 1, Append(acc, route.val))

\* The loop, run by the reader that has just read newRoutesCount.
ReadRoutes(newRoutesCount) ==
  IF ~newRoutesCount.ok THEN newRoutesCount
  ELSE RoutesLoop(newRoutesCount, newRoutesCount.val, <<>>)

\* Lines 145-223: the payload of an update request.
ReadUpdatePayload(data) ==
  LET routingTableId == readUuid(NewReader(data))
      currentEpochIndex == ReadUInt32(routingTableId)
      fromEpochIndex == ReadUInt32(currentEpochIndex)
      toEpochIndex == ReadUInt32(fromEpochIndex)
      newRoutesCount == ReadVarUInt(toEpochIndex)
      newRoutes == ReadRoutes(newRoutesCount)
      withdrawnRoutesCount == ReadVarUInt(newRoutes)
      withdrawnRoutes == ReadVarOctetStrings(withdrawnRoutesCount)
  IN IF ~withdrawnRoutes.ok THEN LibraryError("reader")
     ELSE Returned([routingTableId |-> routingTableId.val,
                    currentEpochIndex |-> currentEpochIndex.val,
                    fromEpochIndex |-> fromEpochIndex.val,
                    toEpochIndex |-> toEpochIndex.val,
                    newRoutes |-> newRoutes.val,
                    withdrawnRoutes |-> [i \in 1..Len(withdrawnRoutes.val) |->
                                           Utf8Decode(withdrawnRoutes.val[i])]])

\* A variant that checks the condition before the destination.
deserializeCcpRouteUpdateRequest_ConditionFirst(request, nowMs) ==
  IF request.type # "prepare" THEN LibraryError("ilp-packet")
  ELSE IF request.executionCondition # PEER_PROTOCOL_CONDITION THEN
    Thrown("Error",
           "packet does not contain correct condition for a peer protocol request.", <<>>)
  ELSE IF request.destination # CCP_UPDATE_DESTINATION THEN
    Thrown("TypeError", "packet is not a CCP route update request.", <<>>)
  ELSE IF IsExpired(nowMs, request.expiresAt) THEN
    Thrown("Error", "CCP route update request packet is expired.", <<>>)
  ELSE ReadUpdatePayload(request.data)

deserializeCcpRouteUpdateRequest(request, nowMs) ==
  IF request.type # "prepare" THEN LibraryError("ilp-packet")
  ELSE IF request.destination # CCP_UPDATE_DESTINATION THEN
    Thrown("TypeError", "packet is not a CCP route update request.", <<>>)
  ELSE IF request.executionCondition # PEER_PROTOCOL_CONDITION THEN
    Thrown("Error",
           "packet does not contain correct condition for a peer protocol request.", <<>>)
  ELSE IF IsExpired(nowMs, request.expiresAt) THEN
    Thrown("Error", "CCP route update request packet is expired.", <<>>)
  ELSE ReadUpdatePayload(request.data)

\* A variant that sets each flag's bit whatever the other flags are.
PropMeta_Unguarded(prop) ==
  LET m1 == BitOr(0, IF prop.isWellKnown THEN 128 ELSE 0)
      m2 == BitOr(m1, IF prop.isTransitive THEN 64 ELSE 0)
      m3 == BitOr(m2, IF prop.isPartial THEN 32 ELSE 0)
  IN BitOr(m3, IF prop.isUtf8 THEN 16 ELSE 0)

\* Lines 251-263: the metadata byte of a property.
PropMeta(prop) ==
  LET m1 == BitOr(0, IF prop.isWellKnown THEN 128 ELSE 0)
      m2 == IF ~prop.isWellKnown
            THEN BitOr(m1, IF prop.isTransitive THEN 64 ELSE 0)
            ELSE m1
      m3 == IF ~prop.isWellKnown /\ prop.isTransitive
            THEN BitOr(m2, IF prop.isPartial THEN 32 ELSE 0)
            ELSE m2
  IN BitOr(m3, IF prop.isUtf8 THEN 16 ELSE 0)

\* A variant that writes a text value as ASCII.
WriteProp_AsciiText(prop) ==
  WriteUInt8(PropMeta(prop))
  \o WriteUInt16(prop.id)
  \o WriteVarOctetString(IF prop.isUtf8 THEN AsciiEncode(prop.value) ELSE prop.value)

\* Lines 250-270: one property.
WriteProp(prop) ==
  WriteUInt8(PropMeta(prop))
  \o WriteUInt16(prop.id)
  \o WriteVarOctetString(IF prop.isUtf8 THEN Utf8Encode(prop.value) ELSE prop.value)

\* A variant that accepts an auth shorter than 32 bytes.
AuthIsValid_AtMost32(auth) == Len(auth) <= 32

\* The check of line 244.
AuthIsValid(auth) == Len(auth) = 32

\* Lines 237-270: one route whose auth passed the check of line 244.
WriteRoute(route) ==
  WriteVarOctetString(AsciiEncode(route.prefix))
  \o WriteVarUInt(Len(route.path))
  \o Flatten([i \in 1..Len(route.path) |->
               WriteVarOctetString(AsciiEncode(route.path[i]))])
  \o route.auth
  \o WriteVarUInt(Len(route.props))
  \o Flatten([i \in 1..Len(route.props) |-> WriteProp(route.props[i])])

\* Lines 236-271: the loop over the new routes; it stops at the first route
\* whose auth is not 32 bytes long and reports that route's prefix.
RECURSIVE WriteRoutes(_)
WriteRoutes(routes) ==
  IF routes = <<>> THEN [ok |-> TRUE, val |-> <<>>, prefix |-> <<>>]
  ELSE LET route == Head(routes) IN
    IF ~AuthIsValid(route.auth)
    THEN [ok |-> FALSE, val |-> <<>>, prefix |-> route.prefix]
    ELSE LET rest == WriteRoutes(Tail(routes)) IN
      IF rest.ok
      THEN [ok |-> TRUE, val |-> WriteRoute(route) \o rest.val, prefix |-> <<>>]
      ELSE rest

serializeCcpRouteUpdateRequest(request, nowMs) ==
  LET tableId == writeUuid(request.routingTableId)
      routes == WriteRoutes(request.newRoutes)
  IN IF ~tableId.ok THEN LibraryError("uuid")
     ELSE IF ~routes.ok
     THEN Thrown("Error", "route auth must be 32 bytes. prefix=", routes.prefix)
     ELSE Returned(serializeIlpPrepare(
            "0", CCP_UPDATE_DESTINATION, PEER_PROTOCOL_CONDITION,
            nowMs + PEER_PROTOCOL_EXPIRY_DURATION,
            tableId.val
            \o WriteUInt32(request.currentEpochIndex)
            \o WriteUInt32(request.fromEpochIndex)
            \o WriteUInt32(request.toEpochIndex)
            \o WriteVarUInt(Len(request.newRoutes))
            \o routes.val
            \o WriteVarUInt(Len(request.withdrawnRoutes))
            \o Flatten([i \in 1..Len(request.withdrawnRoutes) |->
                         WriteVarOctetString(AsciiEncode(request.withdrawnRoutes[i]))])))

(***************************************************************************)
(* Response.                                                               *)
(***************************************************************************)
\* A variant that compares only the length of the fulfillment.
deserializeCcpResponse_LengthOnly(response) ==
  IF response.type # "fulfill" THEN LibraryError("ilp-packet")
  ELSE IF Len(PEER_PROTOCOL_FULFILLMENT) # Len(response.fulfillment) THEN
    Thrown("Error", "CCP response does not contain the expected fulfillment.", <<>>)
  ELSE Returned(NoValue)

deserializeCcpResponse(response) ==
  IF response.type # "fulfill" THEN LibraryError("ilp-packet")
  ELSE IF PEER_PROTOCOL_FULFILLMENT # response.fulfillment THEN
    Thrown("Error", "CCP response does not contain the expected fulfillment.", <<>>)
  ELSE Returned(NoValue)

serializeCcpResponse == serializeIlpFulfill(PEER_PROTOCOL_FULFILLMENT, <<>>)

(***************************************************************************)
(* Bounds of the model.                                                    *)
(***************************************************************************)
MaxFeatures == 2
MaxHops == 2
MaxRoutes == 2
MaxWithdrawn == 2
MaxRawLen == 2

SeqsUpTo(S, n) == UNION {[1..k -> S] : k \in 0..n}

(***************************************************************************)
(* The requests a caller passes to the encoders.  Numbers stay below 2^31, *)
(* the largest integer of the model checker.                               *)
(***************************************************************************)
NameA == <<103, 46, 97>>    \* "g.a"
NameE == <<103, 46, 233>>   \* "g." followed by U+00E9
Names == {NameA, NameE}

FeatureX == <<120>>         \* "x"
FeatureE == <<233, 8364>>   \* U+00E9 U+20AC
FeatureS == <<55357>>       \* a high surrogate without its low surrogate
Features == {FeatureX, FeatureE, FeatureS}

\* "00000000-0000-0000-0000-000000000000"
Uuid0 == <<48, 48, 48, 48, 48, 48, 48, 48, 45, 48, 48, 48, 48, 45, 48, 48, 48, 48, 45,
           48, 48, 48, 48, 45, 48, 48, 48, 48, 48, 48, 48, 48, 48, 48, 48, 48>>
\* "21e55f8e-abcd-4e97-9ab9-bf0ff00a224c"
Uuid1 == <<50, 49, 101, 53, 53, 102, 56, 101, 45, 97, 98, 99, 100, 45, 52, 101, 57, 55,
           45, 57, 97, 98, 57, 45, 98, 102, 48, 102, 102, 48, 48, 97, 50, 50, 52, 99>>
Uuids == {Uuid0, Uuid1}

Epochs == {0, 258, 2147483647}

\* CcpRouteControlRequest
ControlRequests ==
  [speaker : Names, lastKnownRoutingTableId : Uuids, lastKnownEpoch : Epochs,
   features : SeqsUpTo(Features, MaxFeatures)]

AuthA == [i \in 1..32 |-> (7 * i) % 256]
AuthShort == SubSeq(AuthA, 1, 31)
AuthLong == AuthA \o <<0>>
Auths == {AuthA, PEER_PROTOCOL_FULFILLMENT, AuthShort, AuthLong}

\* CcpRouteProp: a text value when isUtf8, a Buffer otherwise.
Props ==
  {[isWellKnown |-> w, isTransitive |-> t, isPartial |-> p, isUtf8 |-> u,
    id |-> iv[1], value |-> iv[2]] :
     w \in BOOLEAN, t \in BOOLEAN, p \in BOOLEAN, u \in {TRUE},
     iv \in {<<0, <<>>>>, <<513, FeatureE>>, <<9, FeatureS>>}}
  \cup
  {[isWellKnown |-> w, isTransitive |-> t, isPartial |-> p, isUtf8 |-> u,
    id |-> iv[1], value |-> iv[2]] :
     w \in BOOLEAN, t \in BOOLEAN, p \in BOOLEAN, u \in {FALSE},
     iv \in {<<0, <<>>>>, <<65535, <<195, 40>>>>}}

LastProp == [isWellKnown |-> FALSE, isTransitive |-> TRUE, isPartial |-> TRUE,
             isUtf8 |-> TRUE, id |-> 7, value |-> FeatureX]

PropLists == {<<p>> : p \in Props} \cup {<<p, LastProp>> : p \in Props}

\* CcpRoute
Route(prefix, path, auth, props) ==
  [prefix |-> prefix, path |-> path, auth |-> auth, props |-> props]

PlainRoutes ==
  {Route(NameA, <<>>, a, <<>>) : a \in Auths}
  \cup {Route(NameE, <<>>, AuthA, <<>>)}
  \cup {Route(NameA, path, AuthA, <<>>) : path \in SeqsUpTo(Names, MaxHops)}

\* CcpRouteUpdateRequest
UpdateRequest(routingTableId, epochs, newRoutes, withdrawnRoutes) ==
  [routingTableId |-> routingTableId, currentEpochIndex |-> epochs[1],
   fromEpochIndex |-> epochs[2], toEpochIndex |-> epochs[3],
   newRoutes |-> newRoutes, withdrawnRoutes |-> withdrawnRoutes]

UpdateRequests ==
  {UpdateRequest(Uuid1, <<3, 1, 2>>, nr, <<>>) : nr \in SeqsUpTo(PlainRoutes, MaxRoutes)}
  \cup {UpdateRequest(Uuid1, <<3, 1, 2>>, <<Route(NameA, <<NameA>>, AuthA, pl)>>, wd) :
          pl \in PropLists, wd \in {<<>>, <<NameA>>}}
  \cup {UpdateRequest(id, ep, nr, wd) :
          id \in Uuids, ep \in {<<0, 0, 0>>, <<2147483647, 0, 258>>},
          nr \in {<<>>, <<Route(NameA, <<>>, AuthA, <<>>)>>},
          wd \in SeqsUpTo(Names, MaxWithdrawn)}

(***************************************************************************)
(* The packets a peer may send: any envelope, any payload bytes.           *)
(***************************************************************************)
\* The wire form of a property whose metadata byte and value bytes are given.
PeerProp(prop) ==
  WriteUInt8(prop.meta) \o WriteUInt16(prop.id) \o WriteVarOctetString(prop.value)

\* The wire form of a route whose strings are given as bytes.
PeerRoute(route) ==
  WriteVarOctetString(route.prefix)
  \o WriteVarUInt(Len(route.path))
  \o Flatten([i \in 1..Len(route.path) |-> WriteVarOctetString(route.path[i])])
  \o route.auth
  \o WriteVarUInt(Len(route.props))
  \o Flatten([i \in 1..Len(route.props) |-> PeerProp(route.props[i])])

\* The wire form of an update payload given as bytes.
PeerUpdatePayload(raw) ==
  raw.routingTableId
  \o WriteUInt32(raw.currentEpochIndex)
  \o WriteUInt32(raw.fromEpochIndex)
  \o WriteUInt32(raw.toEpochIndex)
  \o WriteVarUInt(Len(raw.newRoutes))
  \o Flatten([i \in 1..Len(raw.newRoutes) |-> PeerRoute(raw.newRoutes[i])])
  \o WriteVarUInt(Len(raw.withdrawnRoutes))
  \o Flatten([i \in 1..Len(raw.withdrawnRoutes) |->
               WriteVarOctetString(raw.withdrawnRoutes[i])])

RawUpdate(newRoutes, withdrawnRoutes) ==
  [routingTableId |-> writeUuid(Uuid1).val, currentEpochIndex |-> 3,
   fromEpochIndex |-> 1, toEpochIndex |-> 2,
   newRoutes |-> newRoutes, withdrawnRoutes |-> withdrawnRoutes]

\* One route with one property, for each value of the metadata byte.
RawValue == <<195, 169, 233>>
MetaUpdates ==
  {RawUpdate(<<[prefix |-> AsciiEncode(NameA), path |-> <<>>, auth |-> AuthA,
                props |-> <<[meta |-> m, id |-> 513, value |-> RawValue]>>]>>, <<>>) :
     m \in 0..255}

\* One byte string, sent both as a route's prefix and as a withdrawn prefix.
RawBytes == {97, 128, 195, 169, 233}
PrefixUpdates ==
  {RawUpdate(<<[prefix |-> b, path |-> <<>>, auth |-> AuthA, props |-> <<>>]>>, <<b>>) :
     b \in SeqsUpTo(RawBytes, MaxRawLen)}

PeerUpdates == MetaUpdates \cup PrefixUpdates

SampleControl ==
  [speaker |-> NameA, lastKnownRoutingTableId |-> Uuid0, lastKnownEpoch |-> 258,
   features |-> <<FeatureX>>]

ConditionFlipped == [PEER_PROTOCOL_CONDITION EXCEPT ![32] = 36]

\* Envelopes of every destination, condition and expiry, around payloads that
\* parse as a control request, as an update request, or not at all.
PeerEnvelopes ==
  {serializeIlpPrepare("0", d, c, e, data) :
     d \in {CCP_CONTROL_DESTINATION, CCP_UPDATE_DESTINATION, "peer.config"},
     c \in {PEER_PROTOCOL_CONDITION, ConditionFlipped, PEER_PROTOCOL_FULFILLMENT},
     e \in {PEER_PROTOCOL_EXPIRY_DURATION - 1, PEER_PROTOCOL_EXPIRY_DURATION},
     data \in {<<>>, WriteControlPayload(SampleControl),
               PeerUpdatePayload(RawUpdate(<<>>, <<>>)),
               SubSeq(WriteControlPayload(SampleControl), 1, 10)}}

\* What a peer may send as the fulfillment of a response.
Fulfillments ==
  {PEER_PROTOCOL_FULFILLMENT, SubSeq(PEER_PROTOCOL_FULFILLMENT, 1, 31),
   PEER_PROTOCOL_FULFILLMENT \o <<0>>, [PEER_PROTOCOL_FULFILLMENT EXCEPT ![32] = 1],
   [PEER_PROTOCOL_FULFILLMENT EXCEPT ![1] = 128], PEER_PROTOCOL_CONDITION}

\* The readings of the clock (Date.now(), in ms) the model distinguishes.
Times ==
  {0, PEER_PROTOCOL_EXPIRY_DURATION - 1, PEER_PROTOCOL_EXPIRY_DURATION,
   PEER_PROTOCOL_EXPIRY_DURATION + 1}

(***************************************************************************)
(* State: one exchange between a caller of this module and its peer.       *)
(*   now      the clock                                                    *)
(*   phase    "idle", "inflight" (a packet is on its way), "done"          *)
(*   input    what the sender started from                                 *)
(*   encoded  the outcome of the encoder's call                            *)
(*   sentAt   the clock when the packet was built                          *)
(*   packet   the packet on its way                                        *)
(*   decoder  the decoder the receiver applied                             *)
(*   decoded  the outcome of the decoder's call                            *)
(***************************************************************************)
VARIABLES now, phase, input, encoded, sentAt, packet, decoder, decoded

vars == <<now, phase, input, encoded, sentAt, packet, decoder, decoded>>

Init ==
  /\ now = 0
  /\ phase = "idle"
  /\ input = [kind |-> "none", req |-> NoValue]
  /\ encoded = NoResult
  /\ sentAt = 0
  /\ packet = NoPacket
  /\ decoder = "none"
  /\ decoded = NoResult

\* The clock advances.
Tick ==
  /\ phase # "done"
  /\ \E t \in Times : t > now /\ now' = t
  /\ UNCHANGED <<phase, input, encoded, sentAt, packet, decoder, decoded>>

\* The state after a call of an encoder at clock time now: the packet leaves,
\* or the error thrown ends the exchange.
Encoded(kind, req, res) ==
  /\ input' = [kind |-> kind, req |-> req]
  /\ encoded' = res
  /\ sentAt' = now
  /\ packet' = IF res.ok THEN res.value ELSE NoPacket
  /\ phase' = IF res.ok THEN "inflight" ELSE "done"

SerializeControl ==
  /\ phase = "idle"
  /\ \E r \in ControlRequests :
       Encoded("control", r, serializeCcpRouteControlRequest(r, now))
  /\ UNCHANGED <<now, decoder, decoded>>

SerializeUpdate ==
  /\ phase = "idle"
  /\ \E u \in UpdateRequests :
       Encoded("update", u, serializeCcpRouteUpdateRequest(u, now))
  /\ UNCHANGED <<now, decoder, decoded>>

SerializeResponse ==
  /\ phase = "idle"
  /\ Encoded("response", NoValue, Returned(serializeCcpResponse))
  /\ UNCHANGED <<now, decoder, decoded>>

\* The state after a packet built by the peer's own implementation arrived.
Arrived(kind, raw, p) ==
  /\ input' = [kind |-> kind, req |-> raw]
  /\ packet' = p
  /\ sentAt' = now
  /\ phase' = "inflight"

PeerSendsUpdate ==
  /\ phase = "idle"
  /\ \E raw \in PeerUpdates :
       Arrived("peerUpdate", raw,
               serializeIlpPrepare("0", CCP_UPDATE_DESTINATION, PEER_PROTOCOL_CONDITION,
                                   2 * PEER_PROTOCOL_EXPIRY_DURATION,
                                   PeerUpdatePayload(raw)))
  /\ UNCHANGED <<now, encoded, decoder, decoded>>

PeerSendsPrepare ==
  /\ phase = "idle"
  /\ \E p \in PeerEnvelopes : Arrived("peerPrepare", NoValue, p)
  /\ UNCHANGED <<now, encoded, decoder, decoded>>

PeerSendsFulfill ==
  /\ phase = "idle"
  /\ \E f \in Fulfillments :
       Arrived("peerFulfill", NoValue, serializeIlpFulfill(f, <<>>))
  /\ UNCHANGED <<now, encoded, decoder, decoded>>

\* The receiver dispatches on the packet's type and calls a decoder.
DeserializeControl ==
  /\ phase = "inflight"
  /\ packet.type = "prepare"
  /\ decoder' = "control"
  /\ decoded' = deserializeCcpRouteControlRequest(packet, now)
  /\ phase' = "done"
  /\ UNCHANGED <<now, input, encoded, sentAt, packet>>

DeserializeUpdate ==
  /\ phase = "inflight"
  /\ packet.type = "prepare"
  /\ decoder' = "update"
  /\ decoded' = deserializeCcpRouteUpdateRequest(packet, now)
  /\ phase' = "done"
  /\ UNCHANGED <<now, input, encoded, sentAt, packet>>

DeserializeResponse ==
  /\ phase = "inflight"
  /\ packet.type = "fulfill"
  /\ decoder' = "response"
  /\ decoded' = deserializeCcpResponse(packet)
  /\ phase' = "done"
  /\ UNCHANGED <<now, input, encoded, sentAt, packet>>

Next ==
  \/ Tick
  \/ SerializeControl
  \/ SerializeUpdate
  \/ SerializeResponse
  \/ PeerSendsUpdate
  \/ PeerSendsPrepare
  \/ PeerSendsFulfill
  \/ DeserializeControl
  \/ DeserializeUpdate
  \/ DeserializeResponse

Spec == Init /\ [][Next]_vars

(***************************************************************************)
(* Vocabulary of the properties.                                           *)
(***************************************************************************)
\* The error classes of the specification, as the throw statements raise them.
ProtocolMismatch(res, which) ==
  /\ ~res.ok
  /\ res.error = "TypeError"
  /\ res.message = (IF which = "control"
                    THEN "packet is not a CCP route control request."
                    ELSE "packet is not a CCP route update request.")

AuthenticationError(res) ==
  /\ ~res.ok
  /\ res.message \in
       {"packet does not contain correct condition for a peer protocol request.",
        "CCP response does not contain the expected fulfillment."}

Expired(res, which) ==
  /\ ~res.ok
  /\ res.message = (IF which = "control"
                    THEN "CCP route control request packet is expired."
                    ELSE "CCP route update request packet is expired.")

ValidationError(res) ==
  ~res.ok /\ res.message = "route auth must be 32 bytes. prefix="

ExpectedDestination(which) ==
  IF which = "control" THEN "peer.route.control" ELSE "peer.route.update"

\* A request decoder has been applied to the packet.
RequestDecoded == phase = "done" /\ decoder \in {"control", "update"}

\* Text that the 'ascii' conversions carry unchanged.
IsAscii(s) == \A i \in 1..Len(s) : s[i] < 128

\* Text without a lone surrogate, which the 'utf8' conversions carry unchanged.
IsWellFormed(s) ==
  \A i \in 1..Len(s) :
    /\ IsHighSurrogate(s[i]) => (i < Len(s) /\ IsLowSurrogate(s[i + 1]))
    /\ IsLowSurrogate(s[i]) => (i > 1 /\ IsHighSurrogate(s[i - 1]))

\* The dependency rule of the property flags.
FlagsRule(prop) ==
  /\ prop.isTransitive => ~prop.isWellKnown
  /\ prop.isPartial => (prop.isTransitive /\ ~prop.isWellKnown)

AuthsAre32(u) == \A i \in 1..Len(u.newRoutes) : Len(u.newRoutes[i].auth) = 32

FlagsFollowRule(u) ==
  \A i \in 1..Len(u.newRoutes) :
    \A j \in 1..Len(u.newRoutes[i].props) : FlagsRule(u.newRoutes[i].props[j])

\* Every text of the request is one its wire encoding can carry.
TextIsCarried(u) ==
  /\ \A i \in 1..Len(u.newRoutes) :
       /\ IsAscii(u.newRoutes[i].prefix)
       /\ \A h \in 1..Len(u.newRoutes[i].path) : IsAscii(u.newRoutes[i].path[h])
       /\ \A j \in 1..Len(u.newRoutes[i].props) :
            u.newRoutes[i].props[j].isUtf8 =>
              IsWellFormed(u.newRoutes[i].props[j].value)
  /\ \A i \in 1..Len(u.withdrawnRoutes) : IsAscii(u.withdrawnRoutes[i])

\* An update request went through the encoder and then the update decoder,
\* before its expiry.
UpdateWentRound ==
  /\ phase = "done"
  /\ input.kind = "update"
  /\ decoder = "update"
  /\ now < packet.expiresAt

\* A control request went through the encoder and then the control decoder,
\* before its expiry.
ControlWentRound ==
  /\ phase = "done"
  /\ input.kind = "control"
  /\ decoder = "control"
  /\ now < packet.expiresAt

Bit(m, k) == (m \div (2 ^ k)) % 2 = 1
B(p) == IF p THEN 1 ELSE 0

RECURSIVE Sum(_)
Sum(ns) == IF ns = <<>> THEN 0 ELSE Head(ns) + Sum(Tail(ns))

ValidControl(r) ==
  /\ IsAscii(r.speaker)
  /\ \A i \in 1..Len(r.features) : IsWellFormed(r.features[i])

C2_ControlRoundTrip ==
  (ControlWentRound /\ ValidControl(input.req))
    => /\ decoded.ok
       /\ decoded.value.speaker = input.req.speaker
       /\ decoded.value.lastKnownRoutingTableId = input.req.lastKnownRoutingTableId
       /\ decoded.value.lastKnownEpoch = input.req.lastKnownEpoch
       /\ Len(decoded.value.features) = Len(input.req.features)
       /\ \A i \in 1..Len(input.req.features) :
            decoded.value.features[i] = input.req.features[i]

C2_Witness ==
  /\ ControlWentRound
  /\ ValidControl(input.req)
  /\ input.req.features = <<FeatureE, FeatureX>>
  /\ input.req.lastKnownEpoch = 2147483647
  /\ decoded.ok
  /\ decoded.value.features = <<FeatureE, FeatureX>>

C4_FirstFailingCheck ==
  RequestDecoded =>
    LET destinationOk == packet.destination = ExpectedDestination(decoder)
        conditionOk ==
          /\ Len(packet.executionCondition) = 32
          /\ \A i \in 1..32 :
               packet.executionCondition[i] = PEER_PROTOCOL_CONDITION[i]
        parsed == decoded.ok \/ decoded.error = "LibraryError"
    IN /\ ~destinationOk => ProtocolMismatch(decoded, decoder)
       /\ (destinationOk /\ ~conditionOk) => AuthenticationError(decoded)
       /\ (destinationOk /\ conditionOk /\ Expired(decoded, decoder)) => ~parsed
       /\ parsed => (destinationOk /\ conditionOk /\ now <= packet.expiresAt)

C4_Witness ==
  /\ RequestDecoded
  /\ decoder = "update"
  /\ packet.destination = "peer.route.control"
  /\ packet.executionCondition = ConditionFlipped
  /\ packet.expiresAt < now
  /\ packet.data = <<>>
  /\ ProtocolMismatch(decoded, "update")

(***************************************************************************)
(* C5.  The update encoder raises ValidationError, with the prefix of the  *)
(* route in its message, exactly when some route of newRoutes, at any      *)
(* position, has an auth that is not 32 bytes long; it then returns no     *)
(* bytes.                                                                  *)
(***************************************************************************)
C5_AuthLengthChecked ==
  input.kind = "update" =>
    LET bad == {i \in 1..Len(input.req.newRoutes) :
                  Len(input.req.newRoutes[i].auth) # 32}
    IN /\ ValidationError(encoded) <=> bad # {}
       /\ bad # {} =>
            /\ \E i \in bad :
                 /\ \A k \in bad : i <= k
                 /\ encoded.detail = input.req.newRoutes[i].prefix
            /\ encoded.value = NoValue
            /\ packet = NoPacket
       /\ bad = {} => encoded.ok

C5_Witness ==
  /\ input.kind = "update"
  /\ Len(input.req.newRoutes) = 2
  /\ Len(input.req.newRoutes[1].auth) = 32
  /\ Len(input.req.newRoutes[2].auth) = 33
  /\ ValidationError(encoded)
  /\ encoded.detail = input.req.newRoutes[2].prefix

(***************************************************************************)
(* C6.  The response decoder raises AuthenticationError for every fulfill  *)
(* packet whose fulfillment is not exactly 32 zero bytes and succeeds for  *)
(* every other; the response encoder always produces that fulfillment with *)
(* empty data, so decoding its output never raises.                        *)
(***************************************************************************)
IsZero32(b) == Len(b) = 32 /\ \A i \in 1..Len(b) : b[i] = 0

C6_ResponseFulfillment ==
  /\ (phase = "done" /\ decoder = "response") =>
       /\ decoded.ok <=> IsZero32(packet.fulfillment)
       /\ ~decoded.ok => AuthenticationError(decoded)
  /\ input.kind = "response" =>
       /\ packet.type = "fulfill"
       /\ IsZero32(packet.fulfillment)
       /\ packet.data = <<>>
       /\ phase = "done" => decoded.ok

C6_Witness ==
  /\ phase = "done"
  /\ decoder = "response"
  /\ input.kind = "peerFulfill"
  /\ Len(packet.fulfillment) = 32
  /\ packet.fulfillment[32] = 1
  /\ AuthenticationError(decoded)

(***************************************************************************)
(* C7.  A request built by an encoder at clock time t has amount zero, the *)
(* encoder's destination, the fixed condition and expiresAt = t + 60000;   *)
(* the matching decoder passes the three envelope checks at every time t'  *)
(* with t <= t' < t + 60000, and the other request decoder raises          *)
(* ProtocolMismatch at every time.                                         *)
(***************************************************************************)
C7_EnvelopeOfEncoders ==
  (input.kind \in {"control", "update"} /\ encoded.ok) =>
    /\ packet.type = "prepare"
    /\ packet.amount = "0"
    /\ packet.destination = ExpectedDestination(input.kind)
    /\ packet.executionCondition = PEER_PROTOCOL_CONDITION
    /\ packet.expiresAt = sentAt + 60000
    /\ (RequestDecoded /\ decoder = input.kind /\ sentAt <= now
          /\ now < sentAt + 60000) =>
         /\ ~ProtocolMismatch(decoded, decoder)
         /\ ~AuthenticationError(decoded)
         /\ ~Expired(decoded, decoder)
         /\ decoded.ok
    /\ (RequestDecoded /\ decoder # input.kind) => ProtocolMismatch(decoded, decoder)

C7_Witness ==
  /\ input.kind = "control"
  /\ encoded.ok
  /\ sentAt = 0
  /\ now = 59999
  /\ RequestDecoded
  /\ decoder = "control"
  /\ decoded.ok

(***************************************************************************)
(* C8.  For every combination of the four flags of a property the update   *)
(* encoder does not raise and writes the metadata byte                     *)
(*   0x80*[isWellKnown] + 0x40*[isTransitive and not isWellKnown]          *)
(*   + 0x20*[isPartial and isTransitive and not isWellKnown]               *)
(*   + 0x10*[isUtf8];                                                      *)
(* so the transitive bit is never set with the well-known bit, the partial *)
(* bit never without the transitive bit, and the four low bits are zero.   *)
(***************************************************************************)
ExpectedMeta(prop) ==
  128 * B(prop.isWellKnown)
  + 64 * B(prop.isTransitive /\ ~prop.isWellKnown)
  + 32 * B(prop.isPartial /\ prop.isTransitive /\ ~prop.isWellKnown)
  + 16 * B(prop.isUtf8)

\* Sizes on the wire of requests whose strings and counts stay below 128.
PropSize(prop) ==
  1 + 2 + 1 + Len(IF prop.isUtf8 THEN Utf8Encode(prop.value) ELSE prop.value)

RouteSize(route) ==
  (1 + Len(route.prefix)) + 2
  + Sum([h \in 1..Len(route.path) |-> 1 + Len(route.path[h])])
  + 32 + 2
  + Sum([j \in 1..Len(route.props) |-> PropSize(route.props[j])])

\* The index in the payload of the metadata byte of property j of route i.
MetaIndex(u, i, j) ==
  16 + 4 + 4 + 4 + 2
  + Sum([k \in 1..(i - 1) |-> RouteSize(u.newRoutes[k])])
  + (1 + Len(u.newRoutes[i].prefix)) + 2
  + Sum([h \in 1..Len(u.newRoutes[i].path) |-> 1 + Len(u.newRoutes[i].path[h])])
  + 32 + 2
  + Sum([k \in 1..(j - 1) |-> PropSize(u.newRoutes[i].props[k])])
  + 1

C8_MetadataByte ==
  (input.kind = "update" /\ AuthsAre32(input.req)) =>
    /\ encoded.ok
    /\ \A i \in 1..Len(input.req.newRoutes) :
         \A j \in 1..Len(input.req.newRoutes[i].props) :
           LET m == packet.data[MetaIndex(input.req, i, j)] IN
             /\ m = ExpectedMeta(input.req.newRoutes[i].props[j])
             /\ ~(Bit(m, 6) /\ Bit(m, 7))
             /\ Bit(m, 5) => Bit(m, 6)
             /\ m % 16 = 0

C8_Witness ==
  /\ input.kind = "update"
  /\ encoded.ok
  /\ Len(input.req.newRoutes) = 1
  /\ Len(input.req.newRoutes[1].props) = 2
  /\ input.req.newRoutes[1].props[1].isWellKnown
  /\ input.req.newRoutes[1].props[1].isTransitive
  /\ input.req.newRoutes[1].props[1].isPartial
  /\ ~input.req.newRoutes[1].props[1].isUtf8
  /\ packet.data[MetaIndex(input.req, 1, 1)] = 128
  /\ packet.data[MetaIndex(input.req, 1, 2)] = 112

(***************************************************************************)
(* C9.  The update decoder reads a withdrawn prefix as ASCII text, as it   *)
(* reads a route's prefix: the same bytes sent as a withdrawn prefix and   *)
(* as a route's prefix come back as the same text.                         *)
(***************************************************************************)
C9_WithdrawnReadLikePrefix ==
  (phase = "done" /\ input.kind = "peerUpdate" /\ decoder = "update"
     /\ Len(input.req.withdrawnRoutes) = 1)
    => /\ decoded.ok
       /\ decoded.value.withdrawnRoutes[1] = decoded.value.newRoutes[1].prefix

(***************************************************************************)
(* C10.  For every metadata byte m in 0..255 of a property of a well-formed*)
(* update request the decoder does not raise and returns isWellKnown =     *)
(* bit 7, isTransitive = bit 6, isPartial = bit 5, isUtf8 = bit 4 of m,    *)
(* whatever the four low bits and whether or not the flags follow the      *)
(* dependency rule; the value is UTF-8 text exactly when bit 4 is set and  *)
(* the raw bytes otherwise.                                                *)
(***************************************************************************)
C10_MetadataDecoded ==
  (phase = "done" /\ input.kind = "peerUpdate" /\ decoder = "update"
     /\ Len(input.req.newRoutes[1].props) = 1)
    => LET sent == input.req.newRoutes[1].props[1]
           m == sent.meta
       IN /\ decoded.ok
          /\ Len(decoded.value.newRoutes[1].props) = 1
          /\ LET got == decoded.value.newRoutes[1].props[1] IN
               /\ got.isWellKnown = Bit(m, 7)
               /\ got.isTransitive = Bit(m, 6)
               /\ got.isPartial = Bit(m, 5)
               /\ got.isUtf8 = Bit(m, 4)
               /\ got.id = sent.id
               /\ got.value = (IF m % 32 >= 16 THEN <<233, 65533>> ELSE sent.value)

C10_Witness ==
  /\ phase = "done"
  /\ input.kind = "peerUpdate"
  /\ decoder = "update"
  /\ Len(input.req.newRoutes[1].props) = 1
  /\ input.req.newRoutes[1].props[1].meta = 239
  /\ decoded.ok
  /\ decoded.value.newRoutes[1].props[1].isWellKnown
  /\ decoded.value.newRoutes[1].props[1].isTransitive
  /\ decoded.value.newRoutes[1].props[1].isPartial
  /\ ~decoded.value.newRoutes[1].props[1].isUtf8
  /\ decoded.value.newRoutes[1].props[1].value = RawValue

=============================================================================
